---- MODULE Spec2Model ----
(***************************************************************************)
(* Invoice Parser API: the POST /parse-invoice and GET /health handlers of *)
(* app/main.py with the text extractors of app/utils.py and the record     *)
(* types of app/models.py.                                                 *)
(*                                                                         *)
(* Text is modelled as a sequence of lexemes (TLA+ strings): a message is  *)
(* its words and punctuation, a JSON document its tokens.  Python values   *)
(* are tagged records [t |-> type, v |-> payload].                         *)
(***************************************************************************)
EXTENDS Integers, Sequences, FiniteSets, TLC

VARIABLES parser, client, req, pc, text, result, response, calls

vars == <<parser, client, req, pc, text, result, response, calls>>

(***************************************************************************)
(* Bounds of the model.                                                    *)
(***************************************************************************)
NumReqs == 2

MaxItems == 2

MaxPages == 2

Reqs == 1..NumReqs

(***************************************************************************)
(* Python values.                                                          *)
(***************************************************************************)
PyNone == [t |-> "None", v |-> 0]

PyAbsent == [t |-> "absent", v |-> 0]

PyStr(s) == [t |-> "str", v |-> s]

PyInt(n) == [t |-> "int", v |-> n]

PyFloat(n) == [t |-> "float", v |-> n]

PyList(s) == [t |-> "list", v |-> s]

PyDict(f) == [t |-> "dict", v |-> f]

EmptyDict == PyDict([k \in {} |-> PyNone])

\* bool(x) as used by `if result.line_items:`
Truthy(x) ==
    CASE x.t = "None" -> FALSE
      [] x.t = "str" -> Len(x.v) > 0
      [] x.t = "int" -> x.v # 0
      [] x.t = "float" -> x.v # 0
      [] x.t = "list" -> Len(x.v) > 0
      [] x.t = "dict" -> DOMAIN x.v # {}
      [] OTHER -> FALSE

(***************************************************************************)
(* Exceptions: a type and the text str(e) gives.                           *)
(***************************************************************************)
Exc(type, msg) == [type |-> type, msg |-> msg]

NoExc == Exc("none", <<>>)

Returned(x) == [raised |-> FALSE, val |-> x, exc |-> NoExc]

Raised(e) == [raised |-> TRUE, val |-> PyNone, exc |-> e]

JSONDecodeError == Exc("JSONDecodeError", <<"Expecting", " ", "value">>)

TypeError == Exc("TypeError", <<"argument", " ", "must", " ", "be", " ", "a", " ", "mapping">>)

NotIterable == Exc("TypeError", <<"object", " ", "is", " ", "not", " ", "iterable">>)

FloatTypeError == Exc("TypeError", <<"float", "(", ")", " ", "argument", " ", "must", " ", "be", " ", "a", " ", "string", " ", "or", " ", "a", " ", "number">>)

FloatValueError == Exc("ValueError", <<"could", " ", "not", " ", "convert", " ", "string", " ", "to", " ", "float">>)

AttributeError == Exc("AttributeError", <<"no", " ", "attribute">>)

LineItemValidationError == Exc("ValidationError", <<"validation", " ", "error", " ", "for", " ", "LineItem">>)

InvoiceDataValidationError == Exc("ValidationError", <<"validation", " ", "error", " ", "for", " ", "InvoiceData">>)

(***************************************************************************)
(* JSON text: the lexemes and json.loads.                                  *)
(***************************************************************************)
Quote == "\""

NumVal == ("0" :> 0) @@ ("2" :> 2) @@ ("3" :> 3) @@ ("4" :> 4) @@ ("5" :> 5) @@
          ("7" :> 7) @@ ("10" :> 10) @@ ("12" :> 12) @@ ("30" :> 30)

NumLexemes == DOMAIN NumVal

NumLex(n) == CHOOSE l \in NumLexemes : NumVal[l] = n

ParseFail == [ok |-> FALSE, val |-> PyNone, next |-> 0]

ParseOk(x, n) == [ok |-> TRUE, val |-> x, next |-> n]

\* the index of the first quote at or after i, 0 when there is none
ClosingQuote(s, i) ==
    LET js == {j \in i..Len(s) : s[j] = Quote}
    IN IF js = {} THEN 0 ELSE CHOOSE j \in js : \A k \in js : j <= k

ParseString(s, i) ==
    IF i > Len(s) \/ s[i] # Quote THEN ParseFail
    ELSE LET j == ClosingQuote(s, i + 1)
         IN IF j = 0 THEN ParseFail
            ELSE ParseOk(PyStr(SubSeq(s, i + 1, j - 1)), j + 1)

RECURSIVE ParseValue(_, _)
RECURSIVE ParseElements(_, _, _)
RECURSIVE ParseMembers(_, _, _)

\* after "[" or ",": one value, then "," or "]"
ParseElements(s, i, acc) ==
    LET e == ParseValue(s, i)
    IN IF ~e.ok \/ e.next > Len(s) THEN ParseFail
       ELSE IF s[e.next] = "]" THEN ParseOk(PyList(Append(acc, e.val)), e.next + 1)
       ELSE IF s[e.next] = "," THEN ParseElements(s, e.next + 1, Append(acc, e.val))
       ELSE ParseFail

\* after "{" or ",": a string key, ":", one value, then "," or "}"
ParseMembers(s, i, acc) ==
    LET k == ParseString(s, i)
    IN IF ~k.ok \/ k.next > Len(s) \/ s[k.next] # ":" THEN ParseFail
       ELSE LET e == ParseValue(s, k.next + 1)
                d == (k.val.v :> e.val) @@ acc
            IN IF ~e.ok \/ e.next > Len(s) THEN ParseFail
               ELSE IF s[e.next] = "}" THEN ParseOk(PyDict(d), e.next + 1)
               ELSE IF s[e.next] = "," THEN ParseMembers(s, e.next + 1, d)
               ELSE ParseFail

ParseValue(s, i) ==
    IF i > Len(s) THEN ParseFail
    ELSE IF s[i] = "null" THEN ParseOk(PyNone, i + 1)
    ELSE IF s[i] \in NumLexemes THEN ParseOk(PyInt(NumVal[s[i]]), i + 1)
    ELSE IF s[i] = Quote THEN ParseString(s, i)
    ELSE IF s[i] = "[" THEN
        IF i + 1 <= Len(s) /\ s[i + 1] = "]" THEN ParseOk(PyList(<<>>), i + 2)
        ELSE ParseElements(s, i + 1, <<>>)
    ELSE IF s[i] = "{" THEN
        IF i + 1 <= Len(s) /\ s[i + 1] = "}" THEN ParseOk(EmptyDict, i + 2)
        ELSE ParseMembers(s, i + 1, [k \in {} |-> PyNone])
    ELSE ParseFail

\* json.loads(s): the decoded document, or JSONDecodeError
json_loads(s) ==
    LET r == ParseValue(s, 1)
    IN IF r.ok /\ r.next = Len(s) + 1 THEN Returned(r.val) ELSE Raised(JSONDecodeError)

(***************************************************************************)
(* Built-in float() and the pydantic field validators (lax mode).          *)
(***************************************************************************)
IsNumericStr(x) == x.t = "str" /\ Len(x.v) = 1 /\ x.v[1] \in NumLexemes

\* float(x) of main.py line 83
float(x) ==
    CASE x.t \in {"int", "float"} -> Returned(PyFloat(x.v))
      [] x.t = "str" -> IF IsNumericStr(x) THEN Returned(PyFloat(NumVal[x.v[1]]))
                        ELSE Raised(FloatValueError)
      [] OTHER -> Raised(FloatTypeError)

\* a field annotated float accepts a number or a numeric string
ValidFloat(x) == x.t \in {"int", "float"} \/ IsNumericStr(x)

\* mutant: the field is optional
ValidStrOrNone(x) == x.t \in {"str", "None"}

\* a field annotated str accepts a str only
ValidStr(x) == x.t = "str"

KeyDescription == <<"description">>

KeyQuantity == <<"quantity">>

KeyUnitPrice == <<"unit_price">>

KeyTotal == <<"total">>

LineItemKeys == {KeyDescription, KeyQuantity, KeyUnitPrice, KeyTotal}

\* LineItem(**item): item must be a mapping holding the four required fields
LineItem(item) ==
    IF item.t # "dict" THEN Raised(TypeError)
    ELSE LET d == item.v
         IN IF /\ LineItemKeys \subseteq DOMAIN d
               /\ ValidStr(d[KeyDescription])
               /\ ValidFloat(d[KeyQuantity])
               /\ ValidFloat(d[KeyUnitPrice])
               /\ ValidFloat(d[KeyTotal])
            THEN Returned([description |-> d[KeyDescription].v,
                           quantity |-> float(d[KeyQuantity]).val,
                           unit_price |-> float(d[KeyUnitPrice]).val,
                           total |-> float(d[KeyTotal]).val])
            ELSE Raised(LineItemValidationError)

\* InvoiceData(...): all six fields required, the line items already built
InvoiceData(invoice_number, date, vendor_name, total_amount, currency, line_items) ==
    IF /\ ValidStr(invoice_number) /\ ValidStr(date) /\ ValidStr(vendor_name)
       /\ ValidFloat(total_amount) /\ ValidStr(currency)
    THEN Returned([invoice_number |-> invoice_number.v,
                   date |-> date.v,
                   vendor_name |-> vendor_name.v,
                   total_amount |-> float(total_amount).val,
                   currency |-> currency.v,
                   line_items |-> line_items])
    ELSE Raised(InvoiceDataValidationError)

(***************************************************************************)
(* The response assembly of parse_invoice (main.py lines 68-86).           *)
(***************************************************************************)
RECURSIVE SetToSeq(_)
SetToSeq(S) ==
    IF S = {} THEN <<>>
    ELSE LET k == CHOOSE k \in S : TRUE IN <<PyStr(k)>> \o SetToSeq(S \ {k})

\* `for item in parsed_items`: what the iteration yields, or TypeError
Iterate(x) ==
    CASE x.t = "list" -> Returned(x.v)
      [] x.t = "dict" -> Returned(SetToSeq(DOMAIN x.v))
      [] x.t = "str" -> Returned([i \in 1..Len(x.v) |-> PyStr(<<x.v[i]>>)])
      [] OTHER -> Raised(NotIterable)

\* mutant: each item is put in front of the ones built before it
RECURSIVE ComprehensionReversed(_, _, _)
ComprehensionReversed(items, i, acc) ==
    IF i > Len(items) THEN Returned(acc)
    ELSE LET li == LineItem(items[i])
         IN IF li.raised THEN li
            ELSE ComprehensionReversed(items, i + 1, <<li.val>> \o acc)

\* [LineItem(**item) for item in parsed_items]: in order, the first failure raises
RECURSIVE Comprehension(_, _, _)
Comprehension(items, i, acc) ==
    IF i > Len(items) THEN Returned(acc)
    ELSE LET li == LineItem(items[i])
         IN IF li.raised THEN li ELSE Comprehension(items, i + 1, Append(acc, li.val))

\* lines 69-76
ParseLineItems(raw) ==
    IF raw.t = "absent" THEN Raised(AttributeError)
    ELSE IF ~Truthy(raw) THEN Returned(<<>>)
    ELSE LET parsed_items == IF raw.t = "str" THEN json_loads(raw.v) ELSE Returned(raw)
         IN IF parsed_items.raised THEN parsed_items
            ELSE LET it == Iterate(parsed_items.val)
                 IN IF it.raised THEN it ELSE Comprehension(it.val, 1, <<>>)

\* lines 68-86: the record, or the first exception raised on the way
Assemble(res) ==
    LET line_items == ParseLineItems(res.line_items)
    IN IF line_items.raised THEN line_items
       ELSE IF res.invoice_number.t = "absent" THEN Raised(AttributeError)
       ELSE IF res.date.t = "absent" THEN Raised(AttributeError)
       ELSE IF res.vendor_name.t = "absent" THEN Raised(AttributeError)
       ELSE IF res.total_amount.t = "absent" THEN Raised(AttributeError)
       ELSE IF float(res.total_amount).raised THEN float(res.total_amount)
       ELSE IF res.currency.t = "absent" THEN Raised(AttributeError)
       ELSE InvoiceData(res.invoice_number, res.date, res.vendor_name,
                        float(res.total_amount).val, res.currency, line_items.val)

(***************************************************************************)
(* Responses and their detail messages.                                    *)
(***************************************************************************)
NoResponse == [status |-> 0, detail |-> <<>>]

HTTPException(status_code, detail) == [status |-> status_code, detail |-> detail]

Ok(body) == [status |-> 200, body |-> body]

InvalidTypeDetail(content_type) ==
    <<"Invalid", " ", "file", " ", "type", ":", " ">> \o content_type
        \o <<".", " ", "Accepted", ":", " ", "PNG", " ", "and", " ", "PDF", ".">>

EmptyDetail == <<"Uploaded", " ", "file", " ", "is", " ", "empty", ".">>

SizeDetail == <<"File", " ", "size", " ", "exceeds", " ", "the", " ", "10", " ", "MB", " ", "limit", ".">>

LineItemsDetail ==
    <<"Failed", " ", "to", " ", "parse", " ", "line", " ", "items", " ", "from", " ", "invoice", ".">>

ProcessDetail(e) ==
    <<"Failed", " ", "to", " ", "process", " ", "invoice", ":", " ">> \o e.msg

\* mutant: the JSONDecodeError clause is missing
ExceptionResponseGeneric(e) == HTTPException(500, ProcessDetail(e))

\* the two except clauses, lines 88-97
ExceptionResponse(e) ==
    IF e.type = "JSONDecodeError" THEN HTTPException(500, LineItemsDetail)
    ELSE HTTPException(500, ProcessDetail(e))

HealthBody == [status |-> <<"healthy">>]

(***************************************************************************)
(* Upload validation (main.py lines 17-18, 34-56).                         *)
(***************************************************************************)
MAX_FILE_SIZE == 10 * 1024 * 1024

ImagePng == <<"image", "/", "png">>

ApplicationPdf == <<"application", "/", "pdf">>

ALLOWED_TYPES == {ImagePng, ApplicationPdf}

\* mutant: only the major type is compared
TypeAllowedByFamily(content_type) ==
    \E a \in ALLOWED_TYPES : content_type[1] = a[1]

\* `file.content_type not in ALLOWED_TYPES`, negated
TypeAllowed(content_type) == content_type \in ALLOWED_TYPES

\* mutant: the emptiness test never succeeds
IsEmptyNegative(n) == n < 0

\* `len(file_bytes) == 0`
IsEmpty(n) == n = 0

\* mutant: the limit itself is rejected
TooLargeInclusive(n) == n >= MAX_FILE_SIZE

\* `len(file_bytes) > MAX_FILE_SIZE`
TooLarge(n) == n > MAX_FILE_SIZE

\* mutant: the path is chosen by the bytes
UsesPdfPathBySniffing(upload) == upload.magic = "pdf"

\* `file.content_type == "application/pdf"`: the PDF path, else the image path
UsesPdfPath(upload) == upload.content_type = ApplicationPdf

(***************************************************************************)
(* Text extractors (utils.py).                                             *)
(***************************************************************************)
Whitespace == {" ", "\n"}

RECURSIVE LStrip(_)
LStrip(s) == IF s # <<>> /\ Head(s) \in Whitespace THEN LStrip(Tail(s)) ELSE s

RECURSIVE RStrip(_)
RStrip(s) ==
    IF s # <<>> /\ s[Len(s)] \in Whitespace THEN RStrip(SubSeq(s, 1, Len(s) - 1)) ELSE s

Strip(s) == RStrip(LStrip(s))

RECURSIVE JoinPages(_, _, _)
JoinPages(pages, i, acc) ==
    IF i > Len(pages) THEN acc
    ELSE JoinPages(pages, i + 1, acc \o pages[i] \o <<"\n">>)

PdfReadError == Exc("PdfReadError", <<"EOF", " ", "marker", " ", "not", " ", "found">>)

\* pdf_to_text: doc is what PdfReader makes of the bytes
pdf_to_text(doc) ==
    IF doc.malformed THEN Raised(PdfReadError)
    ELSE Returned(Strip(JoinPages(doc.pages, 1, <<>>)))

IndexError == Exc("IndexError", <<"list", " ", "index", " ", "out", " ", "of", " ", "range">>)

\* invoice_data_extraction: api is what the one chat-completion call gives
invoice_data_extraction(api) ==
    IF api.raised THEN Raised(api.exc)
    ELSE IF Len(api.choices) = 0 THEN Raised(IndexError)
    ELSE Returned(api.choices[1])

(***************************************************************************)
(* Inputs: uploads, documents, upstream answers.                           *)
(***************************************************************************)
TextPlain == <<"text", "/", "plain">>

XEmpty == <<"application", "/", "x", "-", "empty">>

ContentTypes == {ImagePng, ApplicationPdf, TextPlain, XEmpty}

Sizes == {0, 1, MAX_FILE_SIZE, MAX_FILE_SIZE + 1}

Magics == {"png", "pdf"}

NoRequest == [kind |-> "none", content_type |-> <<>>, size |-> 0, magic |-> "none"]

HealthRequest == [kind |-> "health", content_type |-> <<>>, size |-> 0, magic |-> "none"]

Upload(ct, n, m) == [kind |-> "parse", content_type |-> ct, size |-> n, magic |-> m]

Uploads == {Upload(ct, n, m) : ct \in ContentTypes, n \in Sizes, m \in Magics}

PageTexts == {<<>>, <<"Invoice", " ", "INV-1">>, <<" ", "Total", " ", "30", "\n">>}

PdfDocs(magic) ==
    {[malformed |-> TRUE, pages |-> <<>>]} \cup
    IF magic = "pdf"
    THEN {[malformed |-> FALSE, pages |-> p] :
             p \in UNION {[1..k -> PageTexts] : k \in 0..MaxPages}}
    ELSE {}

VisionTexts == {<<"Invoice", " ", "INV-1", "\n", "Total", " ", "30">>, <<>>}

APIConnectionError == Exc("APIConnectionError", <<"Connection", " ", "error", ".">>)

VisionAnswers ==
    {[raised |-> FALSE, exc |-> NoExc, choices |-> c] :
        c \in {<<>>} \cup {<<t>> : t \in VisionTexts}
                \cup {<<t, u>> : t \in VisionTexts, u \in VisionTexts}}
    \cup {[raised |-> TRUE, exc |-> e, choices |-> <<>>] :
             e \in {APIConnectionError, JSONDecodeError}}

EncodeOrder == <<KeyDescription, KeyQuantity, KeyUnitPrice, KeyTotal>>

RECURSIVE json_dumps(_)
RECURSIVE DumpElements(_, _)
RECURSIVE DumpMembers(_, _)

DumpElements(xs, i) ==
    IF i > Len(xs) THEN <<>>
    ELSE (IF i > 1 THEN <<",">> ELSE <<>>) \o json_dumps(xs[i]) \o DumpElements(xs, i + 1)

DumpMembers(d, ks) ==
    IF ks = <<>> THEN <<>>
    ELSE <<Quote>> \o Head(ks) \o <<Quote, ":">> \o json_dumps(d[Head(ks)])
            \o (IF Len(ks) > 1 THEN <<",">> ELSE <<>>) \o DumpMembers(d, Tail(ks))

\* the JSON text of a document, as the model is asked to write it
json_dumps(x) ==
    CASE x.t = "None" -> <<"null">>
      [] x.t = "int" -> <<NumLex(x.v)>>
      [] x.t = "str" -> <<Quote>> \o x.v \o <<Quote>>
      [] x.t = "list" -> <<"[">> \o DumpElements(x.v, 1) \o <<"]">>
      [] x.t = "dict" ->
           <<"{">> \o DumpMembers(x.v, SelectSeq(EncodeOrder, LAMBDA k : k \in DOMAIN x.v))
                \o <<"}">>

Widget ==
    PyDict((KeyDescription :> PyStr(<<"Widget">>)) @@ (KeyQuantity :> PyInt(2)) @@
           (KeyUnitPrice :> PyInt(5)) @@ (KeyTotal :> PyInt(10)))

Stand ==
    PyDict((KeyDescription :> PyStr(<<"Laptop", " ", "Stand">>)) @@
           (KeyQuantity :> PyStr(<<"3">>)) @@ (KeyUnitPrice :> PyInt(4)) @@
           (KeyTotal :> PyInt(12)))

NoTotal ==
    PyDict((KeyDescription :> PyStr(<<"Widget">>)) @@ (KeyQuantity :> PyInt(2)) @@
           (KeyUnitPrice :> PyInt(5)))

BadQuantity ==
    PyDict((KeyDescription :> PyStr(<<"Widget">>)) @@ (KeyQuantity :> PyStr(<<"three">>)) @@
           (KeyUnitPrice :> PyInt(5)) @@ (KeyTotal :> PyInt(10)))

WellFormedElements == {Widget, Stand}

Elements == WellFormedElements \cup {NoTotal, BadQuantity, PyInt(7)}

ArraysOf(E) == UNION {[1..k -> E] : k \in 0..MaxItems}

WellFormedArrays == ArraysOf(WellFormedElements)

Arrays == ArraysOf(Elements)

\* decoded documents that are not an array
OtherDocs == {PyNone, PyInt(0), PyInt(7), PyStr(<<>>), PyStr(<<"N/A">>), EmptyDict, Widget}

Docs == {PyList(a) : a \in Arrays} \cup OtherDocs

\* strings that are not a JSON document
NotJsonTexts ==
    {<<>>, <<" ">>, <<"N/A">>, <<"[">>, <<"[", "]", "]">>, <<"[", "2", ",", "]">>}
    \cup {SubSeq(json_dumps(PyList(a)), 1, Len(json_dumps(PyList(a))) - 1) :
             a \in WellFormedArrays}

LineItemsValues ==
    {PyStr(json_dumps(d)) : d \in Docs} \cup {PyStr(s) : s \in NotJsonTexts}
    \cup {PyList(a) : a \in Arrays} \cup {PyNone, PyAbsent, EmptyDict, PyInt(0), PyInt(7)}

GoodScalars ==
    [invoice_number |-> PyStr(<<"INV-1">>), date |-> PyStr(<<"2025-07-25">>),
     vendor_name |-> PyStr(<<"ACME", " ", "GmbH">>), total_amount |-> PyFloat(30),
     currency |-> PyStr(<<"EUR">>), line_items |-> PyNone]

StrFields == {"invoice_number", "date", "vendor_name", "currency"}

\* the five scalar fields as the extractor can return them: at most one deviates
ScalarVariants ==
    {GoodScalars}
    \cup {[GoodScalars EXCEPT ![f] = x] : f \in StrFields, x \in {PyNone, PyAbsent}}
    \cup {[GoodScalars EXCEPT !.total_amount = x] :
             x \in {PyStr(<<"30">>), PyStr(<<"14.949,38">>), PyNone, PyAbsent}}

Predictions ==
    {[s EXCEPT !.line_items = li] : s \in ScalarVariants, li \in LineItemsValues}

RateLimitError == Exc("RateLimitError", <<"Rate", " ", "limit", " ", "reached">>)

ParserErrors == {RateLimitError, JSONDecodeError}

ParserAnswers == {Returned(p) : p \in Predictions} \cup {Raised(e) : e \in ParserErrors}

(***************************************************************************)
(* The service: singletons built at import, one handler run per request.   *)
(* A handler run is split at its stage boundaries, so that runs of         *)
(* different requests interleave there.                                    *)
(***************************************************************************)
\* setup_dspy(): the configured language model and the InvoiceParser module
setup_dspy == [lm |-> "openai/gpt-4.1", extractor |-> "ChainOfThought(InvoiceExtraction)"]

\* client = OpenAI()
OpenAI == [api |-> "openai"]

NoPrediction ==
    [invoice_number |-> PyAbsent, date |-> PyAbsent, vendor_name |-> PyAbsent,
     total_amount |-> PyAbsent, currency |-> PyAbsent, line_items |-> PyAbsent]

NotRun == [raised |-> FALSE, val |-> <<>>, exc |-> NoExc]

NotAsked == Returned(NoPrediction)

Init ==
    /\ parser = setup_dspy
    /\ client = OpenAI
    /\ req = [r \in Reqs |-> NoRequest]
    /\ pc = [r \in Reqs |-> "idle"]
    /\ text = [r \in Reqs |-> NotRun]
    /\ result = [r \in Reqs |-> NotAsked]
    /\ response = [r \in Reqs |-> NoResponse]
    /\ calls = [r \in Reqs |-> <<>>]

Call(stage, arg) == [stage |-> stage, arg |-> arg]

\* a request arrives and is routed
Receive(r, U) ==
    /\ pc[r] = "idle"
    /\ \E u \in U :
        /\ req' = [req EXCEPT ![r] = u]
        /\ pc' = [pc EXCEPT ![r] = "start"]
    /\ UNCHANGED <<parser, client, text, result, response, calls>>

\* GET /health
health_check(r) ==
    /\ pc[r] = "start"
    /\ req[r].kind = "health"
    /\ response' = [response EXCEPT ![r] = Ok(HealthBody)]
    /\ pc' = [pc EXCEPT ![r] = "done"]
    /\ UNCHANGED <<parser, client, req, text, result, calls>>

\* lines 34-42: the declared type is checked, then the body is awaited
CheckType(r) ==
    /\ pc[r] = "start"
    /\ req[r].kind = "parse"
    /\ IF ~TypeAllowed(req[r].content_type)
       THEN /\ response' = [response EXCEPT ![r] =
                   HTTPException(400, InvalidTypeDetail(req[r].content_type))]
            /\ pc' = [pc EXCEPT ![r] = "done"]
       ELSE /\ pc' = [pc EXCEPT ![r] = "read"]
            /\ UNCHANGED response
    /\ UNCHANGED <<parser, client, req, text, result, calls>>

\* lines 44-56: the body has been read; empty and oversized bodies are rejected
ValidateBytes(r) ==
    /\ pc[r] = "read"
    /\ IF IsEmpty(req[r].size)
       THEN /\ response' = [response EXCEPT ![r] = HTTPException(400, EmptyDetail)]
            /\ pc' = [pc EXCEPT ![r] = "done"]
       ELSE IF TooLarge(req[r].size)
       THEN /\ response' = [response EXCEPT ![r] = HTTPException(400, SizeDetail)]
            /\ pc' = [pc EXCEPT ![r] = "done"]
       ELSE /\ pc' = [pc EXCEPT ![r] = "extract"]
            /\ UNCHANGED response
    /\ UNCHANGED <<parser, client, req, text, result, calls>>

\* a stage returned out: its exception ends the request, its value moves it on
StageDone(r, out, next) ==
    IF out.raised
    THEN /\ response' = [response EXCEPT ![r] = ExceptionResponse(out.exc)]
         /\ pc' = [pc EXCEPT ![r] = "done"]
    ELSE /\ pc' = [pc EXCEPT ![r] = next]
         /\ UNCHANGED response

\* lines 60-61
ExtractPdf(r, D) ==
    /\ pc[r] = "extract"
    /\ UsesPdfPath(req[r])
    /\ \E doc \in D :
        LET out == pdf_to_text(doc)
        IN /\ text' = [text EXCEPT ![r] = out]
           /\ StageDone(r, out, "parser")
    /\ calls' = [calls EXCEPT ![r] = Append(@, Call("pdf_to_text", <<req[r].magic>>))]
    /\ UNCHANGED <<parser, client, req, result>>

\* lines 62-63
ExtractImage(r, V) ==
    /\ pc[r] = "extract"
    /\ ~UsesPdfPath(req[r])
    /\ \E api \in V :
        LET out == invoice_data_extraction(api)
        IN /\ text' = [text EXCEPT ![r] = out]
           /\ StageDone(r, out, "parser")
    /\ calls' = [calls EXCEPT ![r] =
                    Append(@, Call("invoice_data_extraction", <<req[r].magic>>))]
    /\ UNCHANGED <<parser, client, req, result>>

\* the text handed to the structured extractor: the handler's local `text`
InvoiceTextArg(r) == text[r].val

\* line 66: result = parser(invoice_text=text)
RunParser(r, A) ==
    /\ pc[r] = "parser"
    /\ \E out \in A :
        /\ result' = [result EXCEPT ![r] = out]
        /\ StageDone(r, out, "assemble")
    /\ calls' = [calls EXCEPT ![r] = Append(@, Call("parser", InvoiceTextArg(r)))]
    /\ UNCHANGED <<parser, client, req, text>>

\* mutant: the prediction is kept in one place for all requests
ResultOfShared(r) == result[1].val

\* the prediction the assembly reads: the handler's local `result`
ResultOf(r) == result[r].val

\* lines 68-97: the record is built and returned, or the exception is mapped
AssembleResponse(r) ==
    /\ pc[r] = "assemble"
    /\ LET out == Assemble(ResultOf(r))
       IN response' = [response EXCEPT ![r] =
              IF out.raised THEN ExceptionResponse(out.exc) ELSE Ok(out.val)]
    /\ pc' = [pc EXCEPT ![r] = "done"]
    /\ calls' = [calls EXCEPT ![r] = Append(@, Call("assemble", <<>>))]
    /\ UNCHANGED <<parser, client, req, text, result>>

\* POST /parse-invoice as one function of the upload and the upstream outcomes
parse_invoice(upload, textOut, parserOut) ==
    IF ~TypeAllowed(upload.content_type)
    THEN HTTPException(400, InvalidTypeDetail(upload.content_type))
    ELSE IF IsEmpty(upload.size) THEN HTTPException(400, EmptyDetail)
    ELSE IF TooLarge(upload.size) THEN HTTPException(400, SizeDetail)
    ELSE IF textOut.raised THEN ExceptionResponse(textOut.exc)
    ELSE IF parserOut.raised THEN ExceptionResponse(parserOut.exc)
    ELSE LET out == Assemble(parserOut.val)
         IN IF out.raised THEN ExceptionResponse(out.exc) ELSE Ok(out.val)

(***************************************************************************)
(* Spec: a single request, over the full input sets.                       *)
(***************************************************************************)
AllRequests == Uploads \cup {HealthRequest}

Next ==
    \E r \in {1} :
        \/ Receive(r, AllRequests)
        \/ health_check(r)
        \/ CheckType(r)
        \/ ValidateBytes(r)
        \/ ExtractPdf(r, PdfDocs(req[r].magic))
        \/ ExtractImage(r, VisionAnswers)
        \/ RunParser(r, ParserAnswers)
        \/ AssembleResponse(r)

Spec == Init /\ [][Next]_vars

(***************************************************************************)
(* SpecConc: NumReqs requests served concurrently, over a few inputs.      *)
(***************************************************************************)
ConcRequests ==
    {HealthRequest, Upload(ImagePng, 1, "png"), Upload(ApplicationPdf, 1, "pdf"),
     Upload(ImagePng, 0, "png"), Upload(TextPlain, 1, "png")}

ConcPdfDocs ==
    {[malformed |-> TRUE, pages |-> <<>>],
     [malformed |-> FALSE, pages |-> <<<<"Invoice", " ", "INV-1">>>>]}

ConcVisionAnswers ==
    {[raised |-> FALSE, exc |-> NoExc, choices |-> <<<<"Total", " ", "30">>>>],
     [raised |-> TRUE, exc |-> APIConnectionError, choices |-> <<>>]}

ConcParserAnswers ==
    {Returned([GoodScalars EXCEPT !.line_items = PyStr(json_dumps(PyList(<<Widget>>)))]),
     Returned([GoodScalars EXCEPT !.line_items = PyStr(<<"[">>)]),
     Raised(RateLimitError)}

NextConc ==
    \E r \in Reqs :
        \/ Receive(r, ConcRequests)
        \/ health_check(r)
        \/ CheckType(r)
        \/ ValidateBytes(r)
        \/ ExtractPdf(r, ConcPdfDocs)
        \/ ExtractImage(r, ConcVisionAnswers)
        \/ RunParser(r, ConcParserAnswers)
        \/ AssembleResponse(r)

SpecConc == Init /\ [][NextConc]_vars

(***************************************************************************)
(* Properties.                                                             *)
(***************************************************************************)
Contains(s, sub) ==
    \E i \in 1..(Len(s) - Len(sub) + 1) : SubSeq(s, i, i + Len(sub) - 1) = sub

IsUpload(r) == req[r].kind = "parse"

Done(r) == pc[r] = "done"

AcceptedType(r) == req[r].content_type \in {<<"image", "/", "png">>, <<"application", "/", "pdf">>}

\* the request passed the three upload checks
Validated(r) ==
    IsUpload(r) /\ AcceptedType(r) /\ req[r].size > 0 /\ req[r].size <= 10485760

\* the structured extractor returned and the response was assembled from its answer
Assembled(r) == Done(r) /\ Len(calls[r]) = 3

InvalidFileType == <<"Invalid", " ", "file", " ", "type">>

\* C1: an upload whose declared content type is neither image/png nor
\* application/pdf is answered 400 with a detail containing "Invalid file type"
\* and the declared type, whatever the body size, and no extractor is invoked.
C1_InvalidTypeRejected ==
    \A r \in Reqs :
        (IsUpload(r) /\ ~AcceptedType(r)) =>
            /\ calls[r] = <<>>
            /\ pc[r] \in {"start", "done"}
            /\ Done(r) =>
                /\ response[r].status = 400
                /\ Contains(response[r].detail, InvalidFileType)
                /\ Contains(response[r].detail, req[r].content_type)

C1_Witness ==
    \E r \in Reqs :
        /\ Done(r) /\ IsUpload(r)
        /\ req[r].content_type = <<"text", "/", "plain">>
        /\ req[r].size > 10485760
        /\ response[r].status = 400

\* C2 as claimed: an upload with a zero-byte body is answered 400 with a detail
\* containing "empty", for any declared content type.
C2_EmptyAnyType ==
    \A r \in Reqs :
        (Done(r) /\ IsUpload(r) /\ req[r].size = 0) =>
            /\ response[r].status = 400
            /\ Contains(response[r].detail, <<"empty">>)

\* C2 amended: an upload with an accepted declared type and a zero-byte body is
\* answered 400 with a detail containing "empty" and no extractor is invoked; with
\* any other declared type the type check comes first and the zero-byte body is
\* answered 400 "Invalid file type: <type>. Accepted: PNG and PDF.".
C2_EmptyAcceptedType ==
    \A r \in Reqs :
        (Done(r) /\ IsUpload(r) /\ req[r].size = 0) =>
            /\ response[r].status = 400
            /\ calls[r] = <<>>
            /\ IF AcceptedType(r)
               THEN Contains(response[r].detail, <<"empty">>)
               ELSE response[r].detail =
                        InvalidFileType \o <<":", " ">> \o req[r].content_type
                            \o <<".", " ", "Accepted", ":", " ", "PNG", " ", "and", " ", "PDF", ".">>

C2_Witness ==
    \E r \in Reqs :
        /\ Done(r) /\ IsUpload(r) /\ req[r].size = 0
        /\ req[r].content_type = <<"image", "/", "png">>
        /\ response[r].status = 400

\* C3: with an accepted declared type, a body larger than 10,485,760 bytes is
\* answered 400 "File size exceeds the 10 MB limit." and no extractor is invoked;
\* a non-empty body of at most 10,485,760 bytes is never rejected for size and
\* proceeds to text extraction.
C3_SizeLimit ==
    \A r \in Reqs :
        (IsUpload(r) /\ AcceptedType(r)) =>
            /\ req[r].size > 10485760 =>
                /\ calls[r] = <<>>
                /\ Done(r) =>
                    /\ response[r].status = 400
                    /\ response[r].detail =
                         <<"File", " ", "size", " ", "exceeds", " ", "the", " ", "10", " ", "MB", " ", "limit", ".">>
            /\ (req[r].size > 0 /\ req[r].size <= 10485760) =>
                /\ response[r].status # 400
                /\ pc[r] \notin {"start", "read"} => (pc[r] = "extract" \/ Len(calls[r]) >= 1)

C3_Witness ==
    \E r \in Reqs :
        /\ IsUpload(r) /\ AcceptedType(r)
        /\ req[r].size = 10485760
        /\ Len(calls[r]) >= 1

Supplied(x) == x.t \notin {"absent", "None"}

\* the five scalar fields as supplied pass as they are
ScalarsUsable(p) ==
    /\ \A f \in {"invoice_number", "date", "vendor_name", "currency"} : p[f].t = "str"
    /\ \/ p.total_amount.t \in {"int", "float"}
       \/ p.total_amount.t = "str" /\ p.total_amount.v \in {<<"30">>}

FailedToParseLineItems ==
    <<"Failed", " ", "to", " ", "parse", " ", "line", " ", "items", " ", "from", " ", "invoice", ".">>

FailedToProcessInvoice == <<"Failed", " ", "to", " ", "process", " ", "invoice", ":", " ">>

\* C4 as claimed: when the structured extractor returns a line_items string that
\* is not valid JSON, the empty string included, the response is 500 with detail
\* "Failed to parse line items from invoice." and never 200.
C4_NotJsonIs500 ==
    \A r \in Reqs :
        (Assembled(r) /\ result[r].val.line_items.t = "str"
            /\ result[r].val.line_items.v \in NotJsonTexts) =>
            /\ response[r].status = 500
            /\ response[r].detail = FailedToParseLineItems

\* C4 amended: when the structured extractor returns a non-empty line_items
\* string that json.loads rejects, the response is 500 with detail "Failed to parse
\* line items from invoice." and never 200; an empty string is not decoded, it
\* stands for no line items, and with the other five fields valid the response is
\* 200 with an empty line_items list.
C4_NonEmptyNotJsonIs500 ==
    \A r \in Reqs :
        (Assembled(r) /\ result[r].val.line_items.t = "str"
            /\ result[r].val.line_items.v \in NotJsonTexts) =>
            IF result[r].val.line_items.v # <<>>
            THEN /\ response[r].status = 500
                 /\ response[r].detail = FailedToParseLineItems
            ELSE /\ response[r].status = 500 => response[r].detail # FailedToParseLineItems
                 /\ ScalarsUsable(result[r].val) =>
                     /\ response[r].status = 200
                     /\ response[r].body.line_items = <<>>

C4_Witness ==
    \E r \in Reqs :
        /\ Assembled(r)
        /\ result[r].val.line_items = PyStr(<<"[", "2", ",", "]">>)
        /\ result[r].val.invoice_number.t = "absent"
        /\ response[r].status = 500

NumberOf(x) == IF x.t = "str" THEN NumVal[x.v[1]] ELSE x.v

\* the line item a well-formed element stands for
ExpectedItem(e) ==
    [description |-> e.v[<<"description">>].v,
     quantity |-> [t |-> "float", v |-> NumberOf(e.v[<<"quantity">>])],
     unit_price |-> [t |-> "float", v |-> NumberOf(e.v[<<"unit_price">>])],
     total |-> [t |-> "float", v |-> NumberOf(e.v[<<"total">>])]]

\* C5: when line_items is the JSON text of an array of N well-formed objects, or
\* already a sequence of N such objects, and the other five fields are valid, the
\* response is 200 with exactly N line items, the i-th built from the i-th
\* element, with quantity, unit_price and total as numbers.
C5_LineItemsInOrder ==
    \A r \in Reqs :
        Assembled(r) =>
            \A a \in WellFormedArrays :
                (/\ ScalarsUsable(result[r].val)
                 /\ \/ result[r].val.line_items = PyStr(json_dumps(PyList(a)))
                    \/ result[r].val.line_items = PyList(a)) =>
                    /\ response[r].status = 200
                    /\ Len(response[r].body.line_items) = Len(a)
                    /\ \A i \in 1..Len(a) :
                          response[r].body.line_items[i] = ExpectedItem(a[i])

C5_Witness ==
    \E r \in Reqs :
        /\ Assembled(r)
        /\ ScalarsUsable(result[r].val)
        /\ result[r].val.line_items = PyStr(json_dumps(PyList(<<Stand, Widget>>)))
        /\ response[r].status = 200
        /\ response[r].body.line_items[1].description = <<"Laptop", " ", "Stand">>

SixFields == {"invoice_number", "date", "vendor_name", "total_amount", "currency", "line_items"}

FiveFields == SixFields \ {"line_items"}

\* C6 as claimed: a 200 is produced only when the structured extractor supplied
\* all six fields; if any one is absent or null the request fails with a 500.
C6_AllSixRequired ==
    \A r \in Reqs :
        Assembled(r) =>
            /\ response[r].status \in {200, 500}
            /\ response[r].status = 200 => \A f \in SixFields : Supplied(result[r].val[f])
            /\ (\E f \in SixFields : ~Supplied(result[r].val[f])) => response[r].status = 500

\* C6 amended: a 200 is produced only when the structured extractor supplied
\* invoice_number, date, vendor_name, total_amount and currency (present and not
\* null) and a line_items attribute; if one of the five is absent or null, or
\* line_items is absent, the request fails with a 500, and none of the five is
\* ever filled with a default.  A null line_items is not a failure: it stands for
\* no line items, and with the five fields valid the response is 200 with an
\* empty line_items list.
C6_FiveRequiredLineItemsDefault ==
    \A r \in Reqs :
        Assembled(r) =>
            LET p == result[r].val
            IN /\ response[r].status \in {200, 500}
               /\ ((\E f \in FiveFields : ~Supplied(p[f])) \/ p.line_items.t = "absent") =>
                     response[r].status = 500
               /\ response[r].status = 200 =>
                     /\ \A f \in FiveFields \ {"total_amount"} : response[r].body[f] = p[f].v
                     /\ response[r].body.total_amount = [t |-> "float", v |-> NumberOf(p.total_amount)]
               /\ (p.line_items.t = "None" /\ ScalarsUsable(p)) =>
                     /\ response[r].status = 200
                     /\ response[r].body.line_items = <<>>

C6_Witness ==
    \E r \in Reqs :
        /\ Assembled(r)
        /\ result[r].val.currency.t = "None"
        /\ result[r].val.line_items = PyList(<<Widget>>)
        /\ response[r].status = 500

WellShaped(d) == d.t = "list" /\ \A i \in 1..Len(d.v) : d.v[i] \in WellFormedElements

\* C7: whenever the decoded line_items value is not a sequence whose every
\* element is an object with description, quantity, unit_price and total, the
\* response is 500 and never 200.
C7_ShapeMismatchIs500 ==
    \A r \in Reqs :
        Assembled(r) =>
            \A d \in Docs :
                (result[r].val.line_items = PyStr(json_dumps(d)) /\ ~WellShaped(d)) =>
                    response[r].status = 500

Stages(r) == [i \in 1..Len(calls[r]) |-> calls[r][i].stage]

TextExtractors == {"pdf_to_text", "invoice_data_extraction"}

\* the stages run so far are a prefix of: one text extractor, parser, assemble
InPipelineOrder(r) ==
    /\ Len(calls[r]) <= 3
    /\ Len(calls[r]) >= 1 => Stages(r)[1] \in TextExtractors
    /\ Len(calls[r]) >= 2 => Stages(r)[2] = "parser"
    /\ Len(calls[r]) >= 3 => Stages(r)[3] = "assemble"

\* C8: for a validated upload the detail "Failed to parse line items from
\* invoice." is produced only when decoding line_items as JSON fails; every other
\* failure yields 500 "Failed to process invoice: <message>"; after a stage fails
\* no later stage runs and no stage is invoked twice.
C8_FailureClassification ==
    \A r \in Reqs :
        (Done(r) /\ Validated(r)) =>
            /\ InPipelineOrder(r)
            /\ text[r].raised => Len(calls[r]) = 1
            /\ result[r].raised => Len(calls[r]) = 2
            /\ response[r].status \in {200, 500}
            /\ response[r].status = 500 =>
                IF /\ Len(calls[r]) = 3
                   /\ result[r].val.line_items.t = "str"
                   /\ result[r].val.line_items.v \in NotJsonTexts \ {<<>>}
                THEN response[r].detail = FailedToParseLineItems
                ELSE /\ Len(response[r].detail) >= Len(FailedToProcessInvoice)
                     /\ SubSeq(response[r].detail, 1, Len(FailedToProcessInvoice))
                            = FailedToProcessInvoice

\* C9: a request that passed the three upload checks invokes exactly one text
\* extractor, once, chosen by the declared content type alone (application/pdf:
\* pdf_to_text, image/png: invoice_data_extraction); the structured extractor is
\* invoked at most once, after the text extractor returned and with its text;
\* assembly starts only after the structured extractor returned; a request
\* answered 400 invokes no stage.
C9_StageOrder ==
    \A r \in Reqs :
        LET chosen == IF req[r].content_type = <<"application", "/", "pdf">>
                      THEN "pdf_to_text" ELSE "invoice_data_extraction"
        IN /\ InPipelineOrder(r)
           /\ response[r].status = 400 => calls[r] = <<>>
           /\ ~Validated(r) => calls[r] = <<>>
           /\ pc[r] \in {"idle", "start", "read", "extract"} => calls[r] = <<>>
           /\ pc[r] = "parser" => Len(calls[r]) = 1
           /\ pc[r] = "assemble" => Len(calls[r]) = 2
           /\ (Done(r) /\ Validated(r)) => Len(calls[r]) >= 1
           /\ Len(calls[r]) >= 1 => calls[r][1].stage = chosen
           /\ Len(calls[r]) >= 2 =>
                 /\ ~text[r].raised
                 /\ calls[r][2].arg = text[r].val
           /\ Len(calls[r]) >= 3 => ~result[r].raised

C9_Witness ==
    \E r \in Reqs :
        /\ Done(r) /\ Len(calls[r]) = 3
        /\ req[r].content_type = <<"image", "/", "png">>
        /\ req[r].magic = "pdf"
        /\ calls[r][1].stage = "invoice_data_extraction"
        /\ response[r].status = 200

\* C10: the parser and model-client singletons built at startup are never
\* written by a request, and under any interleaving of concurrently served
\* requests each response is the one the request would get if served alone: a
\* function of its own upload and its own upstream results.
C10_RequestIsolation ==
    /\ parser = [lm |-> "openai/gpt-4.1", extractor |-> "ChainOfThought(InvoiceExtraction)"]
    /\ client = [api |-> "openai"]
    /\ \A r \in Reqs :
          Done(r) =>
              response[r] = IF req[r].kind = "health" THEN Ok(HealthBody)
                            ELSE parse_invoice(req[r], text[r], result[r])

C10_Witness ==
    \E r, q \in Reqs :
        /\ r # q
        /\ Assembled(r) /\ response[r].status = 200
        /\ pc[q] = "assemble"
        /\ result[q].val.line_items = PyStr(<<"[">>)

====
